---- MODULE Spec2Model ----
(***************************************************************************)
(* Model of the identity-document OCR service, backend/python/ocr/app.py.  *)
(*                                                                         *)
(* A Python str is modelled as a sequence of one-character strings, so     *)
(* that upper-casing, regular-expression matching, line splitting, path    *)
(* joining and number formatting are computed character by character.      *)
(* An Optional value is None (the empty tuple) or Some(v) (a one-tuple).   *)
(* Characters are ASCII: letters, digits and the punctuation of the texts  *)
(* below.  The recognition engine, the file system and the remote host are *)
(* the environment: each call on them has every outcome it can have.       *)
(***************************************************************************)
EXTENDS Integers, Sequences, FiniteSets, TLC

VARIABLES
    given,       \* how the argument of parse_fields was composed (history)
    text,        \* parse_fields: its argument
    parsed,      \* parse_fields: None before the call, then Some(its return value)
    ocr_engine,  \* the module global ocr_engine: None or Some(instance)
    constructed, \* number of PaddleOCR(...) constructions so far
    req          \* the /ocr requests in flight: one record per request

vars == <<given, text, parsed, ocr_engine, constructed, req>>

None == << >>
Some(v) == <<v>>

\* Python truthiness of an Optional[str]: None and "" are falsy.
Truthy(o) == o # None /\ o[1] # << >>

(***************************************************************************)
(* Characters and strings                                                  *)
(***************************************************************************)
DigitChars == <<"0", "1", "2", "3", "4", "5", "6", "7", "8", "9">>
LowerChars == <<"a", "b", "c", "d", "e", "f", "g", "h", "i", "j", "k", "l", "m",
                "n", "o", "p", "q", "r", "s", "t", "u", "v", "w", "x", "y", "z">>
UpperChars == <<"A", "B", "C", "D", "E", "F", "G", "H", "I", "J", "K", "L", "M",
                "N", "O", "P", "Q", "R", "S", "T", "U", "V", "W", "X", "Y", "Z">>

Range(s) == {s[i] : i \in 1..Len(s)}

isdigit(c) == c \in Range(DigitChars)
isalpha(c) == c \in Range(LowerChars) \cup Range(UpperChars)
\* \w of the re module: letters, digits and the underscore.
IsWordChar(c) == isdigit(c) \/ isalpha(c) \/ c = "_"
isspace(c) == c \in {" ", "\t"}

UpperChar(c) ==
    IF c \in Range(LowerChars)
    THEN UpperChars[CHOOSE i \in 1..Len(LowerChars) : LowerChars[i] = c]
    ELSE c

\* str.upper()
upper(s) == [i \in 1..Len(s) |-> UpperChar(s[i])]

\* s[i:j] with 1-based inclusive bounds, empty when j < i.
Slice(s, i, j) == IF j < i THEN << >> ELSE SubSeq(s, i, j)

\* s.startswith(p)
startswith(s, p) == Len(s) >= Len(p) /\ SubSeq(s, 1, Len(p)) = p

\* p in s (substring test)
Contains(s, p) ==
    \E i \in 1..(Len(s) - Len(p) + 1) : SubSeq(s, i, i + Len(p) - 1) = p

\* int(s) for a string of decimal digits
DigitVal(c) == (CHOOSE i \in 1..10 : DigitChars[i] = c) - 1

RECURSIVE int(_)
int(s) ==
    IF Len(s) = 0 THEN 0
    ELSE 10 * int(SubSeq(s, 1, Len(s) - 1)) + DigitVal(s[Len(s)])

\* str(n) / f"{n}" for a natural number n
RECURSIVE str(_)
str(n) ==
    IF n < 10 THEN <<DigitChars[n + 1]>>
    ELSE str(n \div 10) \o <<DigitChars[(n % 10) + 1]>>

\* s.strip()
RECURSIVE lstrip_ws(_)
lstrip_ws(s) ==
    IF Len(s) > 0 /\ isspace(s[1]) THEN lstrip_ws(Tail(s)) ELSE s

RECURSIVE rstrip_ws(_)
rstrip_ws(s) ==
    IF Len(s) > 0 /\ isspace(s[Len(s)])
    THEN rstrip_ws(SubSeq(s, 1, Len(s) - 1)) ELSE s

strip(s) == rstrip_ws(lstrip_ws(s))

\* s.splitlines(): the pieces between line breaks, no trailing empty piece.
RECURSIVE SplitFrom(_, _, _)
SplitFrom(s, i, start) ==
    IF i > Len(s)
    THEN IF start > Len(s) THEN << >> ELSE <<Slice(s, start, Len(s))>>
    ELSE IF s[i] = "\n"
         THEN <<Slice(s, start, i - 1)>> \o SplitFrom(s, i + 1, i + 1)
         ELSE SplitFrom(s, i + 1, start)

splitlines(s) == SplitFrom(s, 1, 1)

\* sep.join(parts)
RECURSIVE join(_, _)
join(sep, parts) ==
    IF Len(parts) = 0 THEN << >>
    ELSE IF Len(parts) = 1 THEN parts[1]
    ELSE parts[1] \o sep \o join(sep, Tail(parts))

\* s[a:b], the Python slice: 0-based, b exclusive, clamped to the string.
PySlice(s, a, b) == Slice(s, a + 1, IF Len(s) < b THEN Len(s) ELSE b)

\* s[:n]
Take(s, n) == PySlice(s, 0, n)

\* s.split(sep)[0] for a one-character separator: the text before the first sep.
SplitHead(s, sep) ==
    IF \E i \in 1..Len(s) : s[i] = sep
    THEN Slice(s, 1, (CHOOSE i \in 1..Len(s) :
                         s[i] = sep /\ \A j \in 1..(i - 1) : s[j] # sep) - 1)
    ELSE s

(***************************************************************************)
(* parse_fields                                                            *)
(***************************************************************************)
\* NRIC_PATTERN = \b(\d{6})[- ]?(\d{2})[- ]?(\d{4})\b
Group1Len == 6
Group2Len == 2
Group3Len == 4

\* \b before position i (1-based): exactly one of s[i-1], s[i] is a word character.
WordAt(s, i) == i >= 1 /\ i <= Len(s) /\ IsWordChar(s[i])
WordBoundary(s, i) == WordAt(s, i - 1) # WordAt(s, i)

\* \d{n} at position i
DigitsAt(s, i, n) ==
    i + n - 1 <= Len(s) /\ \A k \in i..(i + n - 1) : isdigit(s[k])

\* [- ]? at position i: the number of characters it consumes.  What follows
\* the separator is a digit, so the greedy choice is the only one that can match.
SepChars == {"-", " "}
\* faulty variant: only the hyphen is taken as a separator
SepLen_hyphen_only(s, i) == IF i <= Len(s) /\ s[i] = "-" THEN 1 ELSE 0
SepLen(s, i) == IF i <= Len(s) /\ s[i] \in SepChars THEN 1 ELSE 0

\* The pattern matched at position i: None, or Some of the three groups.
NRIC_match(s, i) ==
    LET j == i + Group1Len + SepLen(s, i + Group1Len)
        k == j + Group2Len + SepLen(s, j + Group2Len)
    IN  IF /\ WordBoundary(s, i)
           /\ DigitsAt(s, i, Group1Len)
           /\ DigitsAt(s, j, Group2Len)
           /\ DigitsAt(s, k, Group3Len)
           /\ WordBoundary(s, k + Group3Len)
        THEN Some(<<SubSeq(s, i, i + Group1Len - 1),
                    SubSeq(s, j, j + Group2Len - 1),
                    SubSeq(s, k, k + Group3Len - 1)>>)
        ELSE None

\* NRIC_PATTERN.search(s): the match at the leftmost position that has one.
NRIC_search(s) ==
    LET hits == {i \in 1..Len(s) : NRIC_match(s, i) # None}
    IN  IF hits = {} THEN None
        ELSE NRIC_match(s, CHOOSE i \in hits : \A h \in hits : i <= h)

\* f"{m.group(1)}-{m.group(2)}-{m.group(3)}"
ic_format(g) == g[1] \o <<"-">> \o g[2] \o <<"-">> \o g[3]

\* [ln.strip() for ln in upper.splitlines() if ln.strip()]
IsNonEmpty(ln) == ln # << >>
stripped_lines(up) ==
    LET raw == splitlines(up)
    IN  SelectSeq([i \in 1..Len(raw) |-> strip(raw[i])], IsNonEmpty)

MALAYSIA == <<"M", "A", "L", "A", "Y", "S", "I", "A">>
KAD == <<"K", "A", "D">>
NameScanLimit == 8
NameMinLen == 2

\* the condition of the name loop, line 41
name_ok(ln) ==
    /\ Len(ln) > NameMinLen
    /\ ~ \E i \in 1..Len(ln) : isdigit(ln[i])
    /\ ~ Contains(ln, MALAYSIA)
    /\ ~ Contains(ln, KAD)

\* lines[:8]
\* faulty variant: every line is scanned
name_scan_unlimited(lines) == lines
name_scan(lines) == Take(lines, NameScanLimit)

\* for ln in lines[:8]: if ...: name = ln; break
RECURSIVE first_name(_)
first_name(lines) ==
    IF Len(lines) = 0 THEN None
    ELSE IF name_ok(lines[1]) THEN Some(lines[1])
    ELSE first_name(Tail(lines))

keywords == <<
    <<"J", "A", "L", "A", "N">>,
    <<"N", "O", ".">>,
    <<"T", "A", "M", "A", "N">>,
    <<"K", "U", "A", "L", "A">>,
    <<"S", "E", "L", "A", "N", "G", "O", "R">>,
    <<"J", "O", "H", "O", "R">>,
    <<"S", "A", "B", "A", "H">>,
    <<"S", "A", "R", "A", "W", "A", "K">>,
    <<"M", "E", "L", "A", "K", "A">>,
    <<"N", "E", "G", "E", "R", "I">>,
    <<"P", "E", "R", "A", "K">>,
    <<"P", "E", "N", "A", "N", "G">>,
    <<"P", "U", "L", "A", "U">> >>
AddrLineLimit == 3
AddrSep == <<",", " ">>

\* any(kw in ln for kw in keywords)
has_keyword(ln) == \E k \in 1..Len(keywords) : Contains(ln, keywords[k])

\* ", ".join(addr_lines[:3])
\* faulty variant: every address line is joined
addr_join_unlimited(addr_lines) == join(AddrSep, addr_lines)
addr_join(addr_lines) == join(AddrSep, Take(addr_lines, AddrLineLimit))

CenturyPivot == 40
Century1900 == 1900
Century2000 == 2000

\* century = 1900 if yy >= 40 else 2000
\* faulty variant: the pivot year itself falls into the 2000s
century_above_pivot(yy) == IF yy > CenturyPivot THEN Century1900 ELSE Century2000
century(yy) == IF yy >= CenturyPivot THEN Century1900 ELSE Century2000

\* lines 53-56: the date of birth derived from the id number
dob_of(ic) ==
    LET yymmdd == SplitHead(ic, "-")
        yy == int(PySlice(yymmdd, 0, 2))
        mm == PySlice(yymmdd, 2, 4)
        dd == PySlice(yymmdd, 4, 6)
    IN  str(century(yy) + yy) \o <<"-">> \o mm \o <<"-">> \o dd

parse_fields(t) ==
    LET up        == upper(t)
        m         == NRIC_search(up)
        ic_number == IF m # None THEN Some(ic_format(m[1])) ELSE None
        lines     == stripped_lines(up)
        name      == first_name(name_scan(lines))
        addr_lines == SelectSeq(lines, has_keyword)
        address   == IF addr_lines # << >> THEN Some(addr_join(addr_lines)) ELSE None
        dob       == IF Truthy(ic_number) THEN Some(dob_of(ic_number[1])) ELSE None
    IN  [name |-> name, ic_number |-> ic_number, dob |-> dob, address |-> address]

(***************************************************************************)
(* Arguments of parse_fields.  A text is composed either around an id      *)
(* number (noise, three digit groups with two separators, noise) or from   *)
(* lines; `given' keeps the composition.                                   *)
(***************************************************************************)
MaxNoise == 2   \* noise characters before and after the id number
MaxFill  == 8   \* repeated leading lines
MaxTail  == 4   \* free lines after them

Rep(x, k) == [i \in 1..k |-> x]
SeqsUpTo(S, n) == UNION {[1..k -> S] : k \in 0..n}

NoiseChars == {"a", "7", "_", " ", ".", "\n"}
Noise == {Rep(c, k) : c \in NoiseChars, k \in 0..MaxNoise}

IdDigits == {
    << <<"9","0","0","1","0","1">>, <<"1","4">>, <<"1","2","3","4">> >>,
    << <<"5","5","0","2","0","3">>, <<"0","1">>, <<"5","6","7","8">> >>,
    << <<"3","9","1","2","3","1">>, <<"1","0">>, <<"0","0","0","7">> >>,
    << <<"4","0","0","2","2","9">>, <<"0","8">>, <<"4","3","2","1">> >>,
    << <<"0","0","0","1","0","1">>, <<"1","2">>, <<"9","9","9","9">> >> }

\* what may stand between two digit groups: nothing, a hyphen, a space, a slash
Between == {<< >>, <<"-">>, <<" ">>, <<"/">>}

SecondId == <<" ", "5","5","0","2","0","3", " ", "0","1", "5","6","7","8">>

\* One line of recognized text with what a reader sees in it: the line as it
\* is to be reported (trimmed, upper case), whether it is blank, whether it can
\* be a name, whether it names a street, a town or a state.
Ln(raw, norm, blank, nameok, addr) ==
    [raw |-> raw, norm |-> norm, blank |-> blank, nameok |-> nameok, addr |-> addr]

L_KAD   == Ln(<<"M","y","K","a","d">>, <<"M","Y","K","A","D">>, FALSE, FALSE, FALSE)
L_MSIA  == Ln(<<"m","a","l","a","y","s","i","a">>, MALAYSIA, FALSE, FALSE, FALSE)
L_DIGIT == Ln(<<"B"," ","7">>, <<"B"," ","7">>, FALSE, FALSE, FALSE)
L_SHORT == Ln(<<" ","A","b">>, <<"A","B">>, FALSE, FALSE, FALSE)
L_BLANK == Ln(<<" "," ">>, << >>, TRUE, FALSE, FALSE)
L_NAME  == Ln(<<" ","A","l","i"," ">>, <<"A","L","I">>, FALSE, TRUE, FALSE)
L_NO    == Ln(<<"N","o","."," ","1">>, <<"N","O","."," ","1">>, FALSE, FALSE, TRUE)
L_TAMAN == Ln(<<"t","a","m","a","n"," ","x">>, <<"T","A","M","A","N"," ","X">>,
              FALSE, TRUE, TRUE)
L_PERAK == Ln(<<"P","e","r","a","k"," ">>, <<"P","E","R","A","K">>, FALSE, TRUE, TRUE)

FillLines == {L_KAD, L_MSIA, L_DIGIT, L_SHORT, L_BLANK, L_NO}
TailLines == {L_NAME, L_NO, L_TAMAN, L_PERAK}

NoLines == << >>
NoId == << << >>, << >>, << >> >>

IdInputs ==
    [kind : {"id"}, pre : Noise, g : IdDigits, s1 : Between, s2 : Between,
     suf : Noise \cup {SecondId}, lines : {NoLines}]

LineInputs ==
    [kind : {"lines"}, pre : {<< >>}, g : {NoId}, s1 : {<< >>}, s2 : {<< >>},
     suf : {<< >>},
     lines : {Rep(f, k) \o t : f \in FillLines, k \in 0..MaxFill,
                               t \in SeqsUpTo(TailLines, MaxTail)}]

NoInput ==
    [kind |-> "none", pre |-> << >>, g |-> NoId, s1 |-> << >>, s2 |-> << >>,
     suf |-> << >>, lines |-> NoLines]

\* the text a composition stands for
TextOf(in) ==
    IF in.kind = "id"
    THEN in.pre \o in.g[1] \o in.s1 \o in.g[2] \o in.s2 \o in.g[3] \o in.suf
    ELSE join(<<"\n">>, [i \in 1..Len(in.lines) |-> in.lines[i].raw])

(***************************************************************************)
(* The extractor alone: parse_fields applied to one text.                  *)
(***************************************************************************)
ServiceIdle == ocr_engine = None /\ constructed = 0 /\ req = << >>

InitParse ==
    /\ given \in IdInputs \cup LineInputs
    /\ text = TextOf(given)
    /\ parsed = None
    /\ ServiceIdle

ParseCall ==
    /\ parsed = None
    /\ parsed' = Some(parse_fields(text))
    /\ UNCHANGED <<given, text, ocr_engine, constructed, req>>

NextParse == ParseCall

SpecParse == InitParse /\ [][NextParse]_vars

(***************************************************************************)
(* Properties of parse_fields, stated on the composition of its argument.  *)
(***************************************************************************)
IsSeparator(x) == x \in {<< >>, <<"-">>, <<" ">>}
Hyphenated(g) == g[1] \o <<"-">> \o g[2] \o <<"-">> \o g[3]
IdShaped == given.kind = "id" /\ IsSeparator(given.s1) /\ IsSeparator(given.s2)

\* neither a letter, nor a digit, nor an underscore
Plain(c) == c \in {" ", ".", "\n", "-", "/"}
StandsAlone ==
    /\ given.pre = << >> \/ Plain(given.pre[Len(given.pre)])
    /\ given.suf = << >> \/ Plain(given.suf[1])

\* C5 as claimed: whatever surrounds the id number (six, two and four digits,
\* each separator a hyphen, a space or nothing), parse_fields returns it in
\* the hyphenated form.
C5_AnySurrounding ==
    (parsed # None /\ IdShaped) =>
        parsed[1].ic_number = Some(Hyphenated(given.g))

\* C5 amended: the same, for an id number that is not directly preceded or
\* followed by a letter, a digit or an underscore; the first occurrence wins.
C5_StandingAlone ==
    (parsed # None /\ IdShaped /\ StandsAlone) =>
        parsed[1].ic_number = Some(Hyphenated(given.g))

C5_Witness ==
    /\ parsed # None /\ IdShaped /\ StandsAlone
    /\ given.s1 = <<" ">> /\ given.s2 = << >>
    /\ given.pre = <<".", ".">> /\ given.suf = SecondId
    /\ parsed[1].ic_number = Some(Hyphenated(given.g))

\* C6: the date of birth is present exactly when the id number is, and is then
\* CCYY-MM-DD read off the id number's first six digits, the century 19 for
\* YY >= 40 and 20 below; a text without an id number gives neither field.
HasNoId ==
    \/ given.kind = "lines"
    \/ given.kind = "id" /\ ~ (IsSeparator(given.s1) /\ IsSeparator(given.s2))
                         /\ given.suf # SecondId

C6_DateOfBirth ==
    parsed # None =>
        LET r == parsed[1] IN
        /\ (r.dob = None) <=> (r.ic_number = None)
        /\ r.ic_number # None =>
             LET ic == r.ic_number[1]
                 d  == r.dob[1]
             IN  /\ Len(d) = 10 /\ d[5] = "-" /\ d[8] = "-"
                 /\ <<d[1], d[2]>> = IF ic[1] \in {"4", "5", "6", "7", "8", "9"}
                                     THEN <<"1", "9">> ELSE <<"2", "0">>
                 /\ <<d[3], d[4]>> = <<ic[1], ic[2]>>
                 /\ <<d[6], d[7]>> = <<ic[3], ic[4]>>
                 /\ <<d[9], d[10]>> = <<ic[5], ic[6]>>
        /\ r.ic_number = Some(<<"9","0","0","1","0","1","-","1","4","-","1","2","3","4">>)
             => r.dob = Some(<<"1","9","9","0","-","0","1","-","0","1">>)
        /\ (r.ic_number # None /\ SubSeq(r.ic_number[1], 1, 2) = <<"5", "5">>)
             => SubSeq(r.dob[1], 1, 4) = <<"1", "9", "5", "5">>
        /\ (r.ic_number # None /\ SubSeq(r.ic_number[1], 1, 2) = <<"3", "9">>)
             => SubSeq(r.dob[1], 1, 4) = <<"2", "0", "3", "9">>
        /\ HasNoId => (r.ic_number = None /\ r.dob = None)

C6_Witness ==
    /\ parsed # None /\ given.kind = "id"
    /\ given.g[1] = <<"4","0","0","2","2","9">>
    /\ parsed[1].dob = Some(<<"1","9","4","0","-","0","2","-","2","9">>)

\* C7: the name is the first of the first 8 non-blank lines that can be a
\* name; a line that can be a name but comes 9th or later is never taken, and
\* there is no name when none of the first 8 can be one.
NonBlank(lines) == SelectSeq(lines, LAMBDA l : ~ l.blank)
NameCandidates(lines) ==
    {i \in 1..Len(NonBlank(lines)) : i <= 8 /\ NonBlank(lines)[i].nameok}
ExpectedName(lines) ==
    IF NameCandidates(lines) = {} THEN None
    ELSE Some(NonBlank(lines)[CHOOSE i \in NameCandidates(lines) :
                                 \A j \in NameCandidates(lines) : i <= j].norm)

C7_Name ==
    (parsed # None /\ given.kind = "lines") =>
        parsed[1].name = ExpectedName(given.lines)

C7_Witness ==
    /\ parsed # None /\ given.kind = "lines"
    /\ Len(NonBlank(given.lines)) >= 9
    /\ NonBlank(given.lines)[9].nameok
    /\ NameCandidates(given.lines) = {}
    /\ parsed[1].name = None

\* C8: the address is the first 3 non-blank lines that name a street, a town
\* or a state, in their order in the text, joined with ", "; there is no
\* address when there is no such line.
AddressLines(lines) == SelectSeq(lines, LAMBDA l : l.addr)
ExpectedAddress(lines) ==
    LET a == AddressLines(lines)
        n == IF Len(a) < 3 THEN Len(a) ELSE 3
    IN  IF n = 0 THEN None
        ELSE Some(join(<<",", " ">>, [i \in 1..n |-> a[i].norm]))

C8_Address ==
    (parsed # None /\ given.kind = "lines") =>
        parsed[1].address = ExpectedAddress(given.lines)

C8_Witness ==
    /\ parsed # None /\ given.kind = "lines"
    /\ Len(AddressLines(given.lines)) >= 4
    /\ \E i \in 1..Len(given.lines) : ~ given.lines[i].addr /\ ~ given.lines[i].blank
    /\ AddressLines(given.lines)[1] # AddressLines(given.lines)[2]
    /\ AddressLines(given.lines)[3] # AddressLines(given.lines)[4]
    /\ parsed[1].address = ExpectedAddress(given.lines)

(***************************************************************************)
(* Paths: os.path on POSIX, and the references a request may carry.        *)
(***************************************************************************)
Slash == <<"/">>
HTTP == <<"h", "t", "t", "p">>
UPLOADS == <<"/", "u", "p", "l", "o", "a", "d", "s">>
SRV == <<"/", "s", "r", "v">>
APP == <<"/", "a", "p", "p">>

\* os.path.isabs
isabs(p) == startswith(p, Slash)

\* p.lstrip("/")
RECURSIVE lstrip_slash(_)
lstrip_slash(p) ==
    IF Len(p) > 0 /\ p[1] = "/" THEN lstrip_slash(Tail(p)) ELSE p

\* os.path.join(a, b)
path_join(a, b) ==
    IF isabs(b) THEN b
    ELSE IF a = << >> \/ a[Len(a)] = "/" THEN a \o b
    ELSE a \o Slash \o b

\* url_path.startswith("http")
is_remote(url_path) == startswith(url_path, HTTP)

\* lines 68-77: the candidate paths of a local reference, in the order tried
\* faulty variant: /app is tried before /srv
candidates_app_first(url_path) ==
    IF isabs(url_path)
    THEN <<url_path>> \o
         (IF startswith(url_path, UPLOADS)
          THEN <<path_join(APP, lstrip_slash(url_path)),
                 path_join(SRV, lstrip_slash(url_path))>>
          ELSE << >>)
    ELSE <<path_join(APP, url_path), path_join(SRV, url_path)>>
candidates_of(url_path) ==
    IF isabs(url_path)
    THEN <<url_path>> \o
         (IF startswith(url_path, UPLOADS)
          THEN <<path_join(SRV, lstrip_slash(url_path)),
                 path_join(APP, lstrip_slash(url_path))>>
          ELSE << >>)
    ELSE <<path_join(SRV, url_path), path_join(APP, url_path)>>

\* if req.backUrl:
has_back(backUrl) == Truthy(backUrl)

\* try: ... except Exception: pass  (lines 113-122) encloses the back image
\* path only; an exception raised for the front image leaves the handler.
\* faulty variants: only FileNotFoundError is caught; the front image is enclosed too
caught_not_found_only(side, exc) == side = "back" /\ exc = "NotFound"
caught_everywhere(side, exc) == TRUE
caught(side, exc) == side = "back"

\* lines 117-120: the back result fills in a missing id number and address
\* faulty variants: the back value replaces the front's; every field is filled in
merge_back_wins(fields, back_fields) ==
    [fields EXCEPT
        !.ic_number = IF Truthy(back_fields.ic_number)
                      THEN back_fields.ic_number ELSE @,
        !.address   = IF Truthy(back_fields.address)
                      THEN back_fields.address ELSE @]
merge_all_fields(fields, back_fields) ==
    [f \in DOMAIN fields |->
        IF ~ Truthy(fields[f]) /\ Truthy(back_fields[f])
        THEN back_fields[f] ELSE fields[f]]
merge(fields, back_fields) ==
    [fields EXCEPT
        !.ic_number = IF ~ Truthy(@) /\ Truthy(back_fields.ic_number)
                      THEN back_fields.ic_number ELSE @,
        !.address   = IF ~ Truthy(@) /\ Truthy(back_fields.address)
                      THEN back_fields.address ELSE @]

\* References, each with the candidate paths a reader of the deployment
\* expects for it (none for a remote one).
R_UPLOADS == <<"/","u","p","l","o","a","d","s","/","a">>
R_REL     == <<"u","p","l","o","a","d","s","/","a">>
R_ABS     == <<"/","t","m","p","/","a">>
R_URL     == <<"h","t","t","p",":","/","/","h","/","a">>
R_EMPTY   == << >>
F_SRV     == <<"/","s","r","v","/","u","p","l","o","a","d","s","/","a">>
F_APP     == <<"/","a","p","p","/","u","p","l","o","a","d","s","/","a">>

Expected(url) ==
    CASE url = R_UPLOADS -> <<R_UPLOADS, F_SRV, F_APP>>
      [] url = R_REL     -> <<F_SRV, F_APP>>
      [] url = R_ABS     -> <<R_ABS>>
      [] url = R_EMPTY   -> <<SRV \o Slash, APP \o Slash>>
      [] OTHER           -> << >>

\* Recognized texts of the service runs.
T_FRONT == <<"A","l","i","\n","9","0","0","1","0","1","-","1","4","-","1","2","3","4",
             "\n","N","o","."," ","1">>
T_BACK  == <<"A","b","u","\n","5","5","0","2","0","3"," ","0","1"," ","5","6","7","8",
             "\n","p","e","r","a","k">>
T_NAME  == <<"A","l","i">>
T_ID    == <<"9","0","0","1","0","1","1","4","1","2","3","4">>
TextPool == {T_FRONT, T_BACK, T_NAME, T_ID}

(***************************************************************************)
(* The /ocr handler.  Each request runs the handler step by step; requests *)
(* share only the global ocr_engine.                                       *)
(***************************************************************************)
NReq == 2   \* concurrent requests

NewRequest(front, back) ==
    [frontUrl   |-> front,    \* req.frontUrl
     backUrl    |-> back,     \* req.backUrl: None or Some(reference)
     pc         |-> "start",
     side       |-> "front",  \* the image being processed
     candidates |-> << >>,    \* read_image_bytes: candidates
     tried      |-> << >>,    \* read_image_bytes: <<path, outcome>> of each open so far
     bytes      |-> None,     \* read_image_bytes: the bytes returned, named by their origin
     front_text |-> None,
     back_text  |-> None,
     fields     |-> None,
     ocr        |-> None,     \* ocr_image_to_text: the engine get_ocr returned
     resp       |-> None,     \* the response body
     exc        |-> << >>]    \* the exceptions raised so far: <<side, kind>>

FrontRefs == {R_UPLOADS, R_REL, R_ABS, R_URL, R_EMPTY}
BackRefs == {None, Some(R_EMPTY), Some(R_UPLOADS), Some(R_REL), Some(R_URL)}

ExtractorIdle == given = NoInput /\ text = << >> /\ parsed = None

current_url(q) == IF q.side = "front" THEN q.frontUrl ELSE q.backUrl[1]

\* an exception of the given kind at the current point of request q
raise(q, kind) ==
    IF caught(q.side, kind)
    THEN [q EXCEPT !.exc = Append(@, <<q.side, kind>>),
                   !.pc = "done", !.resp = q.fields]
    ELSE [q EXCEPT !.exc = Append(@, <<q.side, kind>>), !.pc = "error"]

\* read_image_bytes, lines 61-77
ReadBegin(r) ==
    /\ req[r].pc = "start"
    /\ LET q == req[r]
       IN  req' = [req EXCEPT ![r] =
                 IF is_remote(current_url(q))
                 THEN [q EXCEPT !.pc = "fetch"]
                 ELSE [q EXCEPT !.pc = "try", !.tried = << >>,
                                !.candidates = candidates_of(current_url(q))]]
    /\ UNCHANGED <<given, text, parsed, ocr_engine, constructed>>

\* requests.get(url_path, timeout=10); r.raise_for_status(); return r.content
Fetch(r) ==
    /\ req[r].pc = "fetch"
    /\ \/ req' = [req EXCEPT ![r] =
                    [req[r] EXCEPT !.pc = "decode",
                                   !.bytes = Some(current_url(req[r]))]]
       \/ req' = [req EXCEPT ![r] = raise(req[r], "FetchFailed")]
    /\ UNCHANGED <<given, text, parsed, ocr_engine, constructed>>

\* one pass of the loop of lines 78-83: open(p) fails (no such file, a
\* directory, no permission), or the file opens and is read, or it opens and
\* f.read() raises; the except clause covers both calls.  A path that ends in
\* a slash names a directory, which never opens.
OpenOutcomes(p) ==
    IF p # << >> /\ p[Len(p)] = "/" THEN {"open fails"}
    ELSE {"open fails", "read", "read fails"}
TryCandidate(r) ==
    /\ req[r].pc = "try"
    /\ Len(req[r].tried) < Len(req[r].candidates)
    /\ LET p == req[r].candidates[Len(req[r].tried) + 1]
       IN  \E out \in OpenOutcomes(p) :
             req' = [req EXCEPT ![r] =
                 IF out = "read"
                 THEN [@ EXCEPT !.tried = Append(@, <<p, out>>),
                                !.bytes = Some(p), !.pc = "decode"]
                 ELSE [@ EXCEPT !.tried = Append(@, <<p, out>>)]]
    /\ UNCHANGED <<given, text, parsed, ocr_engine, constructed>>

\* line 84: raise FileNotFoundError(... tried: {candidates})
NotFound(r) ==
    /\ req[r].pc = "try"
    /\ Len(req[r].tried) = Len(req[r].candidates)
    /\ req' = [req EXCEPT ![r] = raise(@, "NotFound")]
    /\ UNCHANGED <<given, text, parsed, ocr_engine, constructed>>

set_text(q, t) ==
    IF q.side = "front" THEN [q EXCEPT !.front_text = Some(t)]
    ELSE [q EXCEPT !.back_text = Some(t)]

\* ocr_image_to_text, lines 91-94: the bytes decode to an image or to None
Decode(r) ==
    /\ req[r].pc = "decode"
    /\ \/ req' = [req EXCEPT ![r] =
                    [@ EXCEPT !.pc = "get_ocr", !.bytes = None,
                              !.candidates = << >>, !.tried = << >>]]
       \/ req' = [req EXCEPT ![r] =
                    [set_text(@, << >>) EXCEPT !.pc = "parse", !.bytes = None,
                              !.candidates = << >>, !.tried = << >>]]
    /\ UNCHANGED <<given, text, parsed, ocr_engine, constructed>>

\* get_ocr, line 18: if ocr_engine is None
GetOcrCheck(r) ==
    /\ req[r].pc = "get_ocr"
    /\ req' = [req EXCEPT ![r].pc =
                 IF ocr_engine = None THEN "construct" ELSE "get_ocr return"]
    /\ UNCHANGED <<given, text, parsed, ocr_engine, constructed>>

\* get_ocr, line 19: ocr_engine = PaddleOCR(...)
Construct(r) ==
    /\ req[r].pc = "construct"
    /\ constructed' = constructed + 1
    /\ ocr_engine' = Some(constructed + 1)
    /\ req' = [req EXCEPT ![r].pc = "get_ocr return"]
    /\ UNCHANGED <<given, text, parsed>>

\* get_ocr, line 20: return ocr_engine
GetOcrReturn(r) ==
    /\ req[r].pc = "get_ocr return"
    /\ req' = [req EXCEPT ![r] = [@ EXCEPT !.ocr = ocr_engine, !.pc = "recognize"]]
    /\ UNCHANGED <<given, text, parsed, ocr_engine, constructed>>

\* ocr_image_to_text, lines 96-103: the engine returns lines, joined, or raises
Recognize(r) ==
    /\ req[r].pc = "recognize"
    /\ \/ \E t \in TextPool :
            req' = [req EXCEPT ![r] = [set_text(@, t) EXCEPT !.pc = "parse"]]
       \/ req' = [req EXCEPT ![r] = raise(@, "OcrError")]
    /\ UNCHANGED <<given, text, parsed, ocr_engine, constructed>>

\* ocr, lines 110-112: the front fields, then the back image if there is one
ParseFront(r) ==
    /\ req[r].pc = "parse"
    /\ req[r].side = "front"
    /\ LET fields == parse_fields(req[r].front_text[1])
       IN  req' = [req EXCEPT ![r] =
                 IF has_back(req[r].backUrl)
                 THEN [@ EXCEPT !.fields = Some(fields), !.side = "back", !.pc = "start"]
                 ELSE [@ EXCEPT !.fields = Some(fields), !.resp = Some(fields),
                                !.pc = "done"]]
    /\ UNCHANGED <<given, text, parsed, ocr_engine, constructed>>

\* ocr, lines 116-124: the back fields, merged into the front fields
ParseBack(r) ==
    /\ req[r].pc = "parse"
    /\ req[r].side = "back"
    /\ LET fields == merge(req[r].fields[1], parse_fields(req[r].back_text[1]))
       IN  req' = [req EXCEPT ![r] =
                 [@ EXCEPT !.fields = Some(fields), !.resp = Some(fields),
                           !.pc = "done"]]
    /\ UNCHANGED <<given, text, parsed, ocr_engine, constructed>>

Next ==
    \/ \E r \in DOMAIN req : ReadBegin(r)
    \/ \E r \in DOMAIN req : Fetch(r)
    \/ \E r \in DOMAIN req : TryCandidate(r)
    \/ \E r \in DOMAIN req : NotFound(r)
    \/ \E r \in DOMAIN req : Decode(r)
    \/ \E r \in DOMAIN req : GetOcrCheck(r)
    \/ \E r \in DOMAIN req : Construct(r)
    \/ \E r \in DOMAIN req : GetOcrReturn(r)
    \/ \E r \in DOMAIN req : Recognize(r)
    \/ \E r \in DOMAIN req : ParseFront(r)
    \/ \E r \in DOMAIN req : ParseBack(r)

\* The service under concurrent requests.
Init ==
    /\ ExtractorIdle
    /\ ocr_engine = None
    /\ constructed = 0
    /\ req \in [1..NReq -> {NewRequest(f, b) : f \in {R_REL, R_URL},
                                               b \in {None, Some(R_UPLOADS)}}]

Spec == Init /\ [][Next]_vars

\* One request, over every kind of reference.
InitRequest ==
    /\ ExtractorIdle
    /\ ocr_engine = None
    /\ constructed = 0
    /\ req \in [{1} -> {NewRequest(f, b) : f \in FrontRefs, b \in BackRefs}]

SpecRequest == InitRequest /\ [][Next]_vars

(***************************************************************************)
(* Properties of the handler.                                              *)
(***************************************************************************)
Raised(q, side, kind) == \E i \in 1..Len(q.exc) : q.exc[i] = <<side, kind>>
RaisedOn(q, side) == \E i \in 1..Len(q.exc) : q.exc[i][1] = side
FrontOnly(q) == parse_fields(q.front_text[1])
BackOnly(q) == parse_fields(q.back_text[1])
Failed(q) == \A i \in 1..Len(q.tried) : q.tried[i][2] # "read"
Exhausted(q) ==
    q.candidates # << >> /\ Len(q.tried) = Len(q.candidates) /\ Failed(q)

\* C1: when anything raises while the back image is read, recognized or
\* parsed, the request still succeeds and responds with the record of the
\* front image alone.
C1_BackFailureAbsorbed ==
    \A r \in DOMAIN req :
        RaisedOn(req[r], "back") =>
            /\ req[r].pc = "done"
            /\ req[r].resp = Some(FrontOnly(req[r]))

C1_Witness ==
    \E r \in DOMAIN req :
        /\ req[r].exc = << <<"back", "OcrError">> >>
        /\ req[r].pc = "done"
        /\ req[r].resp # None
        /\ req[r].resp[1].ic_number # None

\* C2: a request whose front reference resolves to no candidate ends in the
\* NotFound error: it has no response and no fields, the back image is never
\* started, and nothing follows the error.
C2_FrontNotFoundIsFatal ==
    \A r \in DOMAIN req :
        LET q == req[r] IN
        (\/ Raised(q, "front", "NotFound")
         \/ q.side = "front" /\ q.pc # "try" /\ Exhausted(q)) =>
            /\ q.pc = "error"
            /\ q.exc = << <<"front", "NotFound">> >>
            /\ q.resp = None /\ q.fields = None
            /\ q.side = "front" /\ q.back_text = None

C2_Witness ==
    \E r \in DOMAIN req :
        /\ req[r].pc = "error"
        /\ req[r].backUrl = Some(R_UPLOADS)
        /\ Len(req[r].tried) = 2
        /\ \A i \in 1..2 : req[r].tried[i][2] = "open fails"
        /\ Raised(req[r], "front", "NotFound")

\* C3: in the merged record the id number (the address) is the front's when
\* the front has one and the back's when only the back has one; the name and
\* the date of birth are the front's whatever the back holds.
FrontFirst(f, b) == IF f # None THEN f ELSE IF b # None THEN b ELSE None

C3_MergePolicy ==
    \A r \in DOMAIN req :
        (req[r].pc = "done" /\ req[r].back_text # None) =>
            LET f == FrontOnly(req[r])
                b == BackOnly(req[r])
                out == req[r].resp[1]
            IN  /\ out.ic_number = FrontFirst(f.ic_number, b.ic_number)
                /\ out.address = FrontFirst(f.address, b.address)
                /\ out.name = f.name
                /\ out.dob = f.dob

C3_Witness ==
    \E r \in DOMAIN req :
        /\ req[r].pc = "done"
        /\ req[r].front_text = Some(T_NAME)
        /\ req[r].back_text = Some(T_BACK)
        /\ req[r].resp[1].ic_number = BackOnly(req[r]).ic_number
        /\ req[r].resp[1].name = Some(<<"A", "L", "I">>)
        /\ BackOnly(req[r]).name = Some(<<"A", "B", "U">>)
        /\ req[r].resp[1].dob = None

\* C4 as claimed: the engine is constructed at most once, and every call of
\* get_ocr returns the same instance.
C4_ConstructedOnce ==
    /\ constructed <= 1
    /\ \A r1, r2 \in DOMAIN req :
          (req[r1].ocr # None /\ req[r2].ocr # None) => req[r1].ocr = req[r2].ocr

\* C9 as claimed: the candidates are tried in the fixed order, the bytes
\* returned are those of the first candidate that opens, no candidate is tried
\* after one that opened, and NotFound is raised exactly when no candidate
\* opened.
Opened(t) == t[2] \in {"read", "read fails"}
InOrder(q) ==
    /\ q.candidates = Expected(current_url(q))
    /\ Len(q.tried) <= Len(q.candidates)
    /\ \A i \in 1..Len(q.tried) : q.tried[i][1] = q.candidates[i]

C9_FirstThatOpens ==
    \A r \in DOMAIN req :
        LET q == req[r] IN
        q.candidates # << >> =>
            /\ InOrder(q)
            /\ \A i \in 1..(Len(q.tried) - 1) : ~ Opened(q.tried[i])
            /\ q.pc = "decode" =>
                 /\ Opened(q.tried[Len(q.tried)])
                 /\ q.bytes = Some(q.tried[Len(q.tried)][1])
            /\ Raised(q, q.side, "NotFound") <=>
                 /\ q.pc # "try"
                 /\ Len(q.tried) = Len(q.candidates)
                 /\ \A i \in 1..Len(q.tried) : ~ Opened(q.tried[i])

\* C9 amended: the same with "opens" read as "opens and is read without
\* error": a candidate that opens but cannot be read counts as failed, and the
\* next one is tried.
C9_FirstThatReads ==
    \A r \in DOMAIN req :
        LET q == req[r] IN
        q.candidates # << >> =>
            /\ InOrder(q)
            /\ \A i \in 1..(Len(q.tried) - 1) : q.tried[i][2] # "read"
            /\ q.pc = "decode" =>
                 /\ q.tried[Len(q.tried)][2] = "read"
                 /\ q.bytes = Some(q.tried[Len(q.tried)][1])
            /\ Raised(q, q.side, "NotFound") <=> (q.pc # "try" /\ Exhausted(q))

C9_Witness ==
    \E r \in DOMAIN req :
        /\ req[r].pc = "decode"
        /\ req[r].tried = << <<R_UPLOADS, "open fails">>, <<F_SRV, "read fails">>,
                             <<F_APP, "read">> >>
        /\ req[r].bytes = Some(F_APP)

\* C10: a request without a back image, and a request whose back image adds
\* nothing (it has neither id number nor address, or the front has every
\* field it has), both respond with the record of the front image alone.
AddsNothing(f, b) ==
    \/ b.ic_number = None /\ b.address = None
    \/ /\ b.ic_number # None => f.ic_number # None
       /\ b.address # None => f.address # None

C10_MergeIdempotent ==
    \A r \in DOMAIN req :
        LET q == req[r] IN
        (q.pc = "done" /\ q.exc = << >>) =>
            /\ ~ has_back(q.backUrl) => q.resp = Some(FrontOnly(q))
            /\ (q.back_text # None /\ AddsNothing(FrontOnly(q), BackOnly(q)))
                  => q.resp = Some(FrontOnly(q))

C10_Witness ==
    \E r \in DOMAIN req :
        /\ req[r].pc = "done"
        /\ req[r].front_text = Some(T_FRONT)
        /\ req[r].back_text = Some(T_BACK)
        /\ BackOnly(req[r]).ic_number # FrontOnly(req[r]).ic_number
        /\ BackOnly(req[r]).address # None
        /\ req[r].resp = Some(FrontOnly(req[r]))

====
